---- MODULE Spec2Model ----
(***************************************************************************)
(* Link tooling of Anya-core (scripts/link_campaign.py,                    *)
(* scripts/simple_link_campaign.py, scripts/check_links.py,                *)
(* scripts/link_fixer.py, scripts/fix_critical_links.py) and its audit     *)
(* metrics (scripts/certik/update_metrics.py).                             *)
(*                                                                         *)
(* A Python string is a sequence of lexemes.  A lexeme is atomic for every *)
(* test the scripts make on a string: the separators "/", "#", " " and     *)
(* "\\", the path components "." and "..", the scheme pieces "http", "s",  *)
(* "://" and "mailto:", and names such as "setup.md".  The path            *)
(* "docs/setup.md" is <<"docs", "/", "setup.md">>.                         *)
(***************************************************************************)
EXTENDS Integers, Sequences, FiniteSets, TLC

VARIABLES
    disk_files,       \* the Markdown files under ROOT_DIR (paths relative to it)
    all_files,        \* LinkDatabase.all_files / simple_link_campaign.all_files
    custom_mappings,  \* LinkDatabase.custom_mappings / simple_link_campaign.custom_mappings
    ref,              \* the reference [text](link) of document source under examination
    broken_links,     \* LinkDatabase.broken_links
    all_broken_links, \* simple_link_campaign.main: all_broken_links
    all_valid_links,  \* simple_link_campaign.main: all_valid_links
    fixed_links,      \* simple_link_campaign.main: fixed_links
    manual_review,    \* simple_link_campaign.main: manual_review
    errors,           \* check_links.check_links_in_file: errors
    exists_calls,     \* history: the paths handed to os.path.exists / Path.exists
    tool,             \* the script that runs
    pc,               \* its position
    doc_text,         \* the references [text](link) each file on disk holds, in order
    mapping_file,     \* LINK_MAPPING_FILE: absent, malformed, or a table
    file_content,     \* LinkDatabase.file_content
    args,             \* main: the parsed flags --fix and --report
    iter_order,       \* the order in which this process iterates self.all_files
    queue,            \* the files the running for loop has still to visit
    report,           \* what generate_report wrote to REPORT_PATH
    exit_code,        \* what main returned
    run,              \* 1: the first run of the campaign; 2: the analysis after it
    first_fixed,      \* the fixed_links of the first run
    faults,           \* the files open() fails on: for reading, for writing
    writes,           \* history: how often each file was opened for writing
    pending,          \* the file open for writing and the content to be written
    metrics_file,     \* certik: METRICS_FILE, absent or the metrics json.dump wrote
    call,             \* certik: the arguments of the last update_metrics call
    calls             \* certik: the number of update_metrics calls so far (the clock)

refvars == <<disk_files, all_files, custom_mappings, ref, broken_links,
             all_broken_links, all_valid_links, fixed_links, manual_review,
             errors, exists_calls, tool, pc>>

\* the state of a whole run of link_campaign.py, untouched while one
\* reference is examined
campvars == <<doc_text, mapping_file, file_content, args, iter_order, queue,
              report, exit_code, run, first_fixed>>

\* the state of the examination of one reference, untouched by a whole run
onevars == <<ref, all_broken_links, all_valid_links, errors, exists_calls>>

\* the file system's faults and the writes in progress
iovars == <<faults, writes, pending>>

\* the state of the audit metrics, untouched by the link tooling
certvars == <<metrics_file, call, calls>>

vars == <<refvars, campvars, iovars, certvars>>

\* no update_metrics call was made and METRICS_FILE does not exist
NoCalls ==
    /\ metrics_file = [exists |-> FALSE, data |-> <<>>]
    /\ call = <<>>
    /\ calls = 0

-----------------------------------------------------------------------------
(* Python str operations *)

\* Python None (the value find_best_match returns without a candidate).
None == <<"<None>">>

\* `if x:` on an Optional[str]
Truthy(x) == x # None /\ x # <<>>

\* str.startswith
StartsWith(s, p) == Len(s) >= Len(p) /\ SubSeq(s, 1, Len(p)) = p

\* str.endswith
EndsWith(s, p) == Len(s) >= Len(p) /\ SubSeq(s, Len(s) - Len(p) + 1, Len(s)) = p

\* str.find: the first position of lexeme c, 0 when absent
Find(s, c) ==
    IF \E i \in 1..Len(s) : s[i] = c
    THEN CHOOSE i \in 1..Len(s) : s[i] = c /\ \A j \in 1..(i - 1) : s[j] # c
    ELSE 0

\* str.rfind: the last position of lexeme c, 0 when absent
RFind(s, c) ==
    IF \E i \in 1..Len(s) : s[i] = c
    THEN CHOOSE i \in 1..Len(s) : s[i] = c /\ \A j \in (i + 1)..Len(s) : s[j] # c
    ELSE 0

\* str.split(c): always at least one part
RECURSIVE split(_, _)
split(s, c) ==
    LET i == Find(s, c)
    IN  IF i = 0 THEN <<s>>
        ELSE <<SubSeq(s, 1, i - 1)>> \o split(SubSeq(s, i + 1, Len(s)), c)

\* c.join(parts)
RECURSIVE join_str(_, _)
join_str(parts, c) ==
    IF parts = <<>> THEN <<>>
    ELSE IF Len(parts) = 1 THEN parts[1]
    ELSE parts[1] \o <<c>> \o join_str(Tail(parts), c)

\* str.lower on one lexeme
LowerLex(x) ==
    CASE x = "Setup.md"  -> "setup.md"
      [] x = "SETUP.md"  -> "setup.md"
      [] x = "README.md" -> "readme.md"
      [] x = "Docs"      -> "docs"
      [] x = "Critical"  -> "critical"
      [] x = "High"      -> "high"
      [] x = "Medium"    -> "medium"
      [] x = "Low"       -> "low"
      [] OTHER           -> x

\* str.lower
lower(s) == [i \in 1..Len(s) |-> LowerLex(s[i])]

\* str.replace('\\', '/')
replace_backslash(s) == [i \in 1..Len(s) |-> IF s[i] = "\\" THEN "/" ELSE s[i]]

\* str.split()[0]: the first whitespace-separated word (<<>> stands for the
\* IndexError of an all-blank string, which no input of the model produces)
first_word(s) ==
    LET words == SelectSeq(split(s, " "), LAMBDA w : w # <<>>)
    IN  IF words = <<>> THEN <<>> ELSE words[1]

\* [x for x in parts if x]
NonEmpty(parts) == SelectSeq(parts, LAMBDA w : w # <<>>)

\* the length of the common prefix of two lists (os.path.commonprefix on lists,
\* and the loop of similarity_score)
RECURSIVE common_prefix_len(_, _)
common_prefix_len(a, b) ==
    IF a = <<>> \/ b = <<>> THEN 0
    ELSE IF a[1] = b[1] THEN 1 + common_prefix_len(Tail(a), Tail(b))
    ELSE 0

\* list.sort(key=..., reverse=...) on a list of <<item, key>> pairs: stable in
\* both directions (insertion sort)
RECURSIVE insert_sorted(_, _, _)
insert_sorted(x, sorted, reverse) ==
    IF sorted = <<>> THEN <<x>>
    ELSE IF (IF reverse THEN sorted[1][2] < x[2] ELSE sorted[1][2] > x[2])
    THEN <<x>> \o sorted
    ELSE <<sorted[1]>> \o insert_sorted(x, Tail(sorted), reverse)

RECURSIVE sort_pairs(_, _)
sort_pairs(list, reverse) ==
    IF list = <<>> THEN <<>>
    ELSE insert_sorted(list[Len(list)],
                       sort_pairs(SubSeq(list, 1, Len(list) - 1), reverse), reverse)

\* iteration over a Python set: any enumeration of its elements
Orders(S) ==
    {o \in [1..Cardinality(S) -> S] : \A i, j \in 1..Cardinality(S) : i # j => o[i] # o[j]}

-----------------------------------------------------------------------------
(* posixpath *)

\* ROOT_DIR = os.path.abspath(os.path.join(os.path.dirname(__file__), ".."))
ROOT_DIR == <<"/", "repo">>

\* the working directory of the process: the repository root
CWD == ROOT_DIR

\* os.path.join(a, b)
path_join(a, b) ==
    IF StartsWith(b, <<"/">>) THEN b
    ELSE IF a = <<>> \/ EndsWith(a, <<"/">>) THEN a \o b
    ELSE a \o <<"/">> \o b

\* os.path.dirname
dirname(p) ==
    LET head == SubSeq(p, 1, RFind(p, "/"))
        slashes == \A i \in 1..Len(head) : head[i] = "/"
        RECURSIVE rstrip(_)
        rstrip(h) == IF h # <<>> /\ h[Len(h)] = "/" THEN rstrip(SubSeq(h, 1, Len(h) - 1)) ELSE h
    IN  IF head # <<>> /\ ~slashes THEN rstrip(head) ELSE head

\* os.path.basename
basename(p) == SubSeq(p, RFind(p, "/") + 1, Len(p))

\* the component loop of os.path.normpath
RECURSIVE norm_comps(_, _, _)
norm_comps(comps, new_comps, initial_slashes) ==
    IF comps = <<>> THEN new_comps
    ELSE LET comp == comps[1]
             rest == Tail(comps)
         IN  IF comp = <<>> \/ comp = <<".">>
             THEN norm_comps(rest, new_comps, initial_slashes)
             ELSE IF comp # <<"..">>
                     \/ (initial_slashes = 0 /\ new_comps = <<>>)
                     \/ (new_comps # <<>> /\ new_comps[Len(new_comps)] = <<"..">>)
             THEN norm_comps(rest, Append(new_comps, comp), initial_slashes)
             ELSE IF new_comps # <<>>
             THEN norm_comps(rest, SubSeq(new_comps, 1, Len(new_comps) - 1), initial_slashes)
             ELSE norm_comps(rest, new_comps, initial_slashes)

\* os.path.normpath
normpath(path) ==
    IF path = <<>> THEN <<".">>
    ELSE LET initial_slashes ==
                 IF ~StartsWith(path, <<"/">>) THEN 0
                 ELSE IF StartsWith(path, <<"/", "/">>) /\ ~StartsWith(path, <<"/", "/", "/">>)
                 THEN 2 ELSE 1
             body == join_str(norm_comps(split(path, "/"), <<>>, initial_slashes), "/")
             out == [i \in 1..initial_slashes |-> "/"] \o body
         IN  IF out = <<>> THEN <<".">> ELSE out

\* os.path.abspath
abspath(path) ==
    IF StartsWith(path, <<"/">>) THEN normpath(path) ELSE normpath(path_join(CWD, path))

\* os.path.relpath(path, start); path is never empty where the scripts call it
relpath(path, start) ==
    LET start_list == NonEmpty(split(abspath(start), "/"))
        path_list == NonEmpty(split(abspath(path), "/"))
        i == common_prefix_len(start_list, path_list)
        rel_list == [k \in 1..(Len(start_list) - i) |-> <<"..">>]
                        \o SubSeq(path_list, i + 1, Len(path_list))
    IN  IF rel_list = <<>> THEN <<".">> ELSE join_str(rel_list, "/")

\* whether list a is a prefix of list b
IsPrefix(a, b) == Len(a) <= Len(b) /\ SubSeq(b, 1, Len(a)) = a

\* os.path.exists / Path.exists on the tree that holds the files `files` under
\* ROOT_DIR: a file, or a directory on the way to a file
exists(path, files) ==
    LET segs == NonEmpty(split(abspath(path), "/"))
    IN  \E f \in files : IsPrefix(segs, NonEmpty(split(path_join(ROOT_DIR, f), "/")))

-----------------------------------------------------------------------------
(* scripts/link_campaign.py: LinkDatabase *)

\* the distance of candidate `file` from the source document (lines 128-140)
distance(file, source_file) ==
    LET source_dir == IF dirname(source_file) = <<>> THEN <<".">> ELSE dirname(source_file)
        target_dir == IF dirname(file) = <<>> THEN <<".">> ELSE dirname(file)
        rel_path == relpath(target_dir, source_dir)
    IN  Len(split(rel_path, "/"))

\* LinkDatabase.find_best_match, lines 112-177: the search by file name;
\* `order` is the order in which this process iterates the set self.all_files
filename_match(broken_link, source_file, order) ==
    LET link_parts == split(broken_link, "/")
        last_part == link_parts[Len(link_parts)]
        \* ANCHOR_PATTERN = (.*)#(.*): the greedy first group ends at the last '#'
        hash == RFind(last_part, "#")
        target_file == IF hash > 0 THEN SubSeq(last_part, 1, hash - 1) ELSE last_part
        anchor == IF hash > 0 THEN SubSeq(last_part, hash + 1, Len(last_part)) ELSE None
        by_suffix == SelectSeq(order,
                         LAMBDA file : EndsWith(lower(file), <<"/">> \o lower(target_file)))
        by_basename == SelectSeq(order,
                         LAMBDA file : lower(basename(file)) = lower(target_file))
        found == IF by_suffix # <<>> THEN by_suffix ELSE by_basename
        matches == sort_pairs([i \in 1..Len(found) |->
                                  <<found[i], distance(found[i], source_file)>>], FALSE)
    IN  IF matches # <<>>
        THEN LET best_match == matches[1][1]
                 rel_path == replace_backslash(
                                 relpath(path_join(ROOT_DIR, best_match),
                                         dirname(path_join(ROOT_DIR, source_file))))
             IN  IF Truthy(anchor) THEN rel_path \o <<"#">> \o anchor ELSE rel_path
        ELSE None

\* find_best_match with the override table consulted after the search by file name
find_best_match_search_first(broken_link, source_file, mappings, order) ==
    IF filename_match(broken_link, source_file, order) # None
    THEN filename_match(broken_link, source_file, order)
    ELSE IF broken_link \in DOMAIN mappings THEN mappings[broken_link]
    ELSE None

\* LinkDatabase.find_best_match
find_best_match(broken_link, source_file, mappings, order) ==
    IF broken_link \in DOMAIN mappings THEN mappings[broken_link]
    ELSE filename_match(broken_link, source_file, order)

\* check_links, lines 195-196: the targets the loop skips first
skipped_link(link) ==
    \/ StartsWith(link, <<"http", "://">>)
    \/ StartsWith(link, <<"http", "s", "://">>)
    \/ StartsWith(link, <<"#">>)
    \/ StartsWith(link, <<"/">>)

\* check_links, lines 200 and 205-208
link_full_path(source_file, link) ==
    normpath(path_join(dirname(path_join(ROOT_DIR, source_file)), split(link, "#")[1]))

\* check_links, lines 193-220: the loop body for one reference of source_file
check_links_body ==
    /\ tool = "link_campaign"
    /\ pc = "check"
    /\ pc' = "done"
    /\ IF skipped_link(ref.link) \/ split(ref.link, "#")[1] = <<>>
       THEN UNCHANGED <<broken_links, exists_calls>>
       ELSE /\ exists_calls' = exists_calls \cup {link_full_path(ref.source, ref.link)}
            /\ IF ~exists(link_full_path(ref.source, ref.link), disk_files)
               THEN \E order \in Orders(all_files) :
                        broken_links' = Append(broken_links,
                            [source |-> ref.source, text |-> ref.text, link |-> ref.link,
                             suggested_fix |-> find_best_match(ref.link, ref.source,
                                                               custom_mappings, order)])
               ELSE UNCHANGED broken_links
    /\ UNCHANGED <<disk_files, all_files, custom_mappings, ref, all_broken_links,
                   all_valid_links, fixed_links, manual_review, errors, tool>>
    /\ UNCHANGED campvars
    /\ UNCHANGED iovars
    /\ UNCHANGED certvars

-----------------------------------------------------------------------------
(* scripts/simple_link_campaign.py *)

\* find_best_match.similarity_score
similarity_score(match_path, source_dir) ==
    common_prefix_len(split(source_dir, "/"), split(dirname(match_path), "/"))

\* simple_link_campaign.find_best_match, lines 69-116: the search by file
\* name; `order` is the order in which this process iterates the set all_files
simple_filename_match(broken_link, source_file, order) ==
    LET filename == basename(broken_link)
        exact == SelectSeq(order, LAMBDA file_path : basename(file_path) = filename)
        folded == SelectSeq(order,
                      LAMBDA file_path : lower(basename(file_path)) = lower(filename))
        found == IF exact # <<>> THEN exact ELSE folded
        source_dir == dirname(source_file)
        matches == sort_pairs([i \in 1..Len(found) |->
                                  <<found[i], similarity_score(found[i], source_dir)>>], TRUE)
    IN  IF matches # <<>> THEN relpath(matches[1][1], source_dir) ELSE None

\* simple_link_campaign.find_best_match
simple_find_best_match(broken_link, source_file, mappings, order) ==
    IF broken_link \in DOMAIN mappings THEN mappings[broken_link]
    ELSE simple_filename_match(broken_link, source_file, order)

\* check_links_in_file, lines 137-142: the targets the loop skips
simple_skipped_link(link_path) ==
    \/ StartsWith(link_path, <<"http", "://">>)
    \/ StartsWith(link_path, <<"http", "s", "://">>)
    \/ StartsWith(link_path, <<"mailto:">>)
    \/ StartsWith(link_path, <<"#">>)

\* check_links_in_file, lines 145-146
simple_full_path(file_path, link_path) ==
    normpath(path_join(dirname(file_path), link_path))

\* check_links_in_file, lines 135-162: the loop body for one reference
simple_check_links_body ==
    /\ tool = "simple_link_campaign"
    /\ pc = "check"
    /\ IF simple_skipped_link(ref.link)
       THEN /\ pc' = "done"
            /\ UNCHANGED <<all_broken_links, all_valid_links, exists_calls>>
       ELSE LET full_path == simple_full_path(ref.source, ref.link)
                entry == [source |-> ref.source, text |-> ref.text, link |-> ref.link,
                          resolved |-> full_path]
            IN  /\ exists_calls' = exists_calls \cup {path_join(ROOT_DIR, full_path)}
                /\ IF exists(path_join(ROOT_DIR, full_path), disk_files)
                   THEN /\ all_valid_links' = Append(all_valid_links, entry)
                        /\ pc' = "done"
                        /\ UNCHANGED all_broken_links
                   ELSE /\ all_broken_links' = Append(all_broken_links, entry)
                        /\ pc' = "resolve"
                        /\ UNCHANGED all_valid_links
    /\ UNCHANGED <<disk_files, all_files, custom_mappings, ref, broken_links,
                   fixed_links, manual_review, errors, tool>>
    /\ UNCHANGED campvars
    /\ UNCHANGED iovars
    /\ UNCHANGED certvars

\* main, lines 299-316 without --fix: the loop body for one broken reference
simple_main_body ==
    /\ tool = "simple_link_campaign"
    /\ pc = "resolve"
    /\ pc' = "done"
    /\ \E order \in Orders(all_files) :
         LET broken_link == all_broken_links[1]
             suggested_fix == simple_find_best_match(broken_link.link, broken_link.source,
                                                     custom_mappings, order)
             fields == {"source", "text", "link", "resolved", "suggested_fix"}
             updated == [k \in fields |->
                            IF k = "suggested_fix"
                            THEN (IF Truthy(suggested_fix) THEN suggested_fix ELSE None)
                            ELSE broken_link[k]]
         IN  /\ all_broken_links' = [all_broken_links EXCEPT ![1] = updated]
             /\ IF Truthy(suggested_fix)
                THEN /\ fixed_links' = Append(fixed_links, updated)
                     /\ UNCHANGED manual_review
                ELSE /\ manual_review' = Append(manual_review, updated)
                     /\ UNCHANGED fixed_links
    /\ UNCHANGED <<disk_files, all_files, custom_mappings, ref, broken_links,
                   all_valid_links, errors, exists_calls, tool>>
    /\ UNCHANGED campvars
    /\ UNCHANGED iovars
    /\ UNCHANGED certvars

-----------------------------------------------------------------------------
(* scripts/check_links.py *)

\* check_links_in_file, lines 37-40: the targets the loop skips
checker_skipped_link(link_url) ==
    \/ StartsWith(link_url, <<"http">>)
    \/ StartsWith(link_url, <<"mailto:">>)
    \/ StartsWith(link_url, <<"#">>)
    \/ link_url = <<>>

\* check_links_in_file, lines 44-52: Path joining and Path.resolve
checker_target_path(file_path, link_url) ==
    IF StartsWith(link_url, <<"/">>)
    THEN abspath(path_join(<<"docs">>, SubSeq(link_url, 2, Len(link_url))))
    ELSE abspath(path_join(dirname(file_path), link_url))

\* check_links_in_file, lines 32-57: the loop body for one reference of a
\* document under docs/
checker_check_links_body ==
    /\ tool = "check_links"
    /\ pc = "check"
    /\ pc' = "done"
    /\ LET link_url == first_word(ref.link)
       IN  IF checker_skipped_link(link_url)
           THEN UNCHANGED <<errors, exists_calls>>
           ELSE /\ exists_calls' = exists_calls \cup
                       {checker_target_path(ref.source, link_url)}
                /\ IF ~exists(checker_target_path(ref.source, link_url), disk_files)
                   THEN errors' = Append(errors,
                            [source |-> ref.source, text |-> ref.text, link |-> link_url])
                   ELSE UNCHANGED errors
    /\ UNCHANGED <<disk_files, all_files, custom_mappings, ref, broken_links,
                   all_broken_links, all_valid_links, fixed_links, manual_review, tool>>
    /\ UNCHANGED campvars
    /\ UNCHANGED iovars
    /\ UNCHANGED certvars

-----------------------------------------------------------------------------
(* The corpus: one reference of one document, an index and an override table *)

\* the most Markdown files the repository holds besides the source document
MaxIndex == 2

FilePool ==
    { <<"setup.md">>,
      <<"docs", "/", "setup.md">>,
      <<"docs", "/", "install", "/", "setup.md">>,
      <<"api", "/", "setup.md">>,
      <<"api", "/", "Setup.md">>,
      <<"docs", "/", "a", "/", "b", "/", "c", "/", "setup.md">>,
      <<"docs", "/", "new.md">> }

Sources == { <<"docs", "/", "guide.md">>, <<"README.md">> }

Links ==
    { <<"setup.md">>,
      <<".", "/", "setup.md">>,
      <<"..", "/", "setup.md">>,
      <<"install", "/", "setup.md">>,
      <<"x", "/", "setup.md">>,
      <<"Setup.md">>,
      <<"old.md">>,
      <<"new.md">>,
      <<"old.md", "#", "install">>,
      <<"setup.md", "#", "install">>,
      <<"setup.md", "#">>,
      <<"setup.md", "#", "a", "#", "b">>,
      <<"gone.md", "#", "a", "/", "setup.md">>,
      <<"/", "setup.md">>,
      <<"/", "docs", "/", "setup.md">>,
      <<"mailto:", "a">>,
      <<"http", "://", "x">>,
      <<"http", "s", "://", "x">>,
      <<"http", "d.md">>,
      <<"#", "top">> }

NoMappings == [k \in {} |-> <<>>]

\* a file system on which every open() succeeds
NoFaults == [unreadable |-> {}, unwritable |-> {}]

MappingTables ==
    { NoMappings,
      <<"old.md">> :> <<"new.md">>,
      <<"old.md", "#", "install">> :> <<"new.md", "#", "install">>,
      <<"setup.md">> :> <<"missing.md">> }

Tools == {"link_campaign", "simple_link_campaign", "check_links"}

\* after load_custom_mappings and scan_all_files (find_markdown_files): the
\* index holds every Markdown file of the tree, the source document among them;
\* check_links.py visits the documents under docs/ only (main, lines 66-77)
RefInit ==
    /\ \E pool \in SUBSET FilePool : \E source \in Sources :
         /\ Cardinality(pool) <= MaxIndex
         /\ disk_files = pool \cup {source}
         /\ \E link \in Links : ref = [source |-> source, text |-> <<"x">>, link |-> link]
    /\ all_files = disk_files
    /\ custom_mappings \in MappingTables
    /\ broken_links = <<>>
    /\ all_broken_links = <<>>
    /\ all_valid_links = <<>>
    /\ fixed_links = <<>>
    /\ manual_review = <<>>
    /\ errors = <<>>
    /\ exists_calls = {}
    /\ tool \in Tools
    /\ tool = "check_links" => StartsWith(ref.source, <<"docs", "/">>)
    /\ pc = "check"
    /\ doc_text = [f \in disk_files |->
                      IF f = ref.source THEN <<[text |-> ref.text, link |-> ref.link]>>
                      ELSE <<>>]
    /\ mapping_file = [state |-> "table", table |-> custom_mappings]
    /\ file_content = NoMappings
    /\ args = [fix |-> FALSE, report |-> FALSE]
    /\ iter_order = <<>>
    /\ queue = <<>>
    /\ report = <<>>
    /\ exit_code = -1
    /\ run = 1
    /\ first_fixed = <<>>
    /\ faults = NoFaults
    /\ writes = [f \in disk_files |-> 0]
    /\ pending = <<>>
    /\ NoCalls

RefNext ==
    \/ check_links_body
    \/ simple_check_links_body
    \/ simple_main_body
    \/ checker_check_links_body

SpecRef == RefInit /\ [][RefNext]_vars

-----------------------------------------------------------------------------
(* scripts/link_campaign.py: a whole run, main() *)

\* len() of one lexeme, in characters
LexLen(x) ==
    CASE x \in {"/", "#", ".", " ", "\\", "s", "x", "a", "b"} -> 1
      [] x = ".."                        -> 2
      [] x \in {"api", "://", "top"}     -> 3
      [] x \in {"docs", "http", "d.md"}  -> 4
      [] x \in {"old.md", "new.md"}      -> 6
      [] x \in {"install", "gone.md", "mailto:"} -> 7
      [] x \in {"setup.md", "Setup.md", "SETUP.md", "guide.md"} -> 8
      [] x = "README.md"                 -> 9
      [] x = "missing.md"                -> 10
      [] x = "link_campaign_report.md"   -> 23
      [] OTHER                           -> 1

\* len(str)
RECURSIVE str_len(_)
str_len(str) == IF str = <<>> THEN 0 ELSE LexLen(str[1]) + str_len(Tail(str))

\* REPORT_PATH, relative to ROOT_DIR
REPORT_PATH == <<"link_campaign_report.md">>

\* scan_all_files, line 100: file.lower().endswith('.md'), on a file name
is_markdown(name) ==
    Len(name) = 1 /\ LowerLex(name[1]) \in
        {"setup.md", "guide.md", "readme.md", "old.md", "new.md", "gone.md",
         "missing.md", "d.md", "link_campaign_report.md"}

\* scan_all_files, lines 95-103: the files os.walk reaches below ROOT_DIR
\* without entering a directory whose name starts with '.'
scanned(files) ==
    {f \in files :
        /\ is_markdown(basename(f))
        /\ LET comps == split(f, "/")
           IN  \A i \in 1..(Len(comps) - 1) : ~StartsWith(comps[i], <<".">>)}

\* check_links, lines 195-202: the reference is taken to the existence check
checked_link(link) == ~skipped_link(link) /\ split(link, "#")[1] # <<>>

\* check_links, lines 193-220: the entries one document adds to broken_links
RECURSIVE broken_in(_, _, _, _, _)
broken_in(source_file, links, files, mappings, order) ==
    IF links = <<>> THEN <<>>
    ELSE (IF checked_link(links[1].link)
             /\ ~exists(link_full_path(source_file, links[1].link), files)
          THEN <<[source |-> source_file, text |-> links[1].text, link |-> links[1].link,
                  suggested_fix |-> find_best_match(links[1].link, source_file,
                                                    mappings, order)]>>
          ELSE <<>>)
         \o broken_in(source_file, Tail(links), files, mappings, order)

\* load_custom_mappings: an absent file leaves the table empty, and so does
\* the JSONDecodeError of a file that is not JSON; a file that holds a JSON
\* number is loaded, and len() of it raises a TypeError that nothing catches
load_custom_mappings ==
    /\ tool = "link_campaign"
    /\ pc = "load"
    /\ custom_mappings' = IF mapping_file.state = "table" THEN mapping_file.table
                          ELSE custom_mappings
    /\ IF mapping_file.state = "number"
       THEN pc' = "crashed" /\ exit_code' = 1
       ELSE pc' = "scan" /\ UNCHANGED exit_code
    /\ UNCHANGED <<disk_files, all_files, broken_links, fixed_links, manual_review, tool>>
    /\ UNCHANGED <<doc_text, mapping_file, file_content, args, iter_order, queue,
                   report, run, first_fixed>>
    /\ UNCHANGED onevars
    /\ UNCHANGED iovars
    /\ UNCHANGED certvars

\* scan_all_files, and the order in which the set it built is iterated from now on
scan_all_files ==
    /\ tool = "link_campaign"
    /\ pc = "scan"
    /\ all_files' = all_files \cup scanned(disk_files)
    /\ iter_order' \in Orders(all_files')
    /\ queue' = iter_order'
    /\ pc' = "check"
    /\ UNCHANGED <<disk_files, custom_mappings, broken_links, fixed_links, manual_review,
                   tool>>
    /\ UNCHANGED <<doc_text, mapping_file, file_content, args, report, exit_code, run,
                   first_fixed>>
    /\ UNCHANGED onevars
    /\ UNCHANGED iovars
    /\ UNCHANGED certvars

\* check_links, lines 182-220: one iteration of the loop over self.all_files
check_links_file ==
    /\ tool = "link_campaign"
    /\ pc = "check"
    /\ queue # <<>>
    /\ LET source_file == Head(queue)
       IN  IF source_file \notin disk_files
           THEN UNCHANGED <<file_content, broken_links, pc, exit_code>>
           ELSE IF source_file \in faults.unreadable
           THEN \* lines 187-188: open() or read() raises, and nothing catches it
                /\ pc' = "crashed"
                /\ exit_code' = 1
                /\ UNCHANGED <<file_content, broken_links>>
           ELSE /\ file_content' = (source_file :> doc_text[source_file]) @@ file_content
                /\ broken_links' = broken_links \o
                       broken_in(source_file, doc_text[source_file], disk_files,
                                 custom_mappings, iter_order)
                /\ UNCHANGED <<pc, exit_code>>
    /\ queue' = Tail(queue)
    /\ UNCHANGED <<disk_files, all_files, custom_mappings, fixed_links, manual_review,
                   tool>>
    /\ UNCHANGED <<doc_text, mapping_file, args, iter_order, report, run, first_fixed>>
    /\ UNCHANGED onevars
    /\ UNCHANGED iovars
    /\ UNCHANGED certvars

\* fix_links, lines 233-235: the keys of links_by_file, in insertion order
RECURSIVE sources_of(_, _)
sources_of(links, seen) ==
    IF links = <<>> THEN <<>>
    ELSE IF links[1].source \in seen THEN sources_of(Tail(links), seen)
    ELSE <<links[1].source>> \o sources_of(Tail(links), seen \cup {links[1].source})

\* check_links, lines 222-226: the loop is over; fix_links starts unless dry_run
check_links_end ==
    /\ tool = "link_campaign"
    /\ pc = "check"
    /\ queue = <<>>
    /\ IF args.fix
       THEN /\ pc' = "fix"
            /\ queue' = sources_of(broken_links, {})
       ELSE /\ pc' = "report"
            /\ UNCHANGED queue
    /\ UNCHANGED <<disk_files, all_files, custom_mappings, broken_links, fixed_links,
                   manual_review, tool>>
    /\ UNCHANGED <<doc_text, mapping_file, file_content, args, iter_order, report,
                   exit_code, run, first_fixed>>
    /\ UNCHANGED onevars
    /\ UNCHANGED iovars
    /\ UNCHANGED certvars

\* re.sub(old_link_pattern, new_link, updated_content): every occurrence of
\* [text](link) becomes [text](suggested_fix)
substitute(content, link_info) ==
    [i \in 1..Len(content) |->
        IF content[i] = [text |-> link_info.text, link |-> link_info.link]
        THEN [text |-> link_info.text, link |-> link_info.suggested_fix]
        ELSE content[i]]

\* the loop of fix_links without the re.search guard: every reference with a
\* suggestion is substituted and recorded as fixed
RECURSIVE fix_loop_unguarded(_, _)
fix_loop_unguarded(links, acc) ==
    IF links = <<>> THEN acc
    ELSE IF Truthy(links[1].suggested_fix)
         THEN fix_loop_unguarded(Tail(links),
                  [acc EXCEPT !.updated_content = substitute(@, links[1]),
                              !.fixed = Append(@, links[1])])
         ELSE fix_loop_unguarded(Tail(links), [acc EXCEPT !.manual = Append(@, links[1])])

\* fix_links, lines 246-270: the loop over the links of one file; `acc` holds
\* updated_content and what the loop appends to fixed_links and manual_review
RECURSIVE fix_loop(_, _)
fix_loop(links, acc) ==
    IF links = <<>> THEN acc
    ELSE LET link_info == links[1]
             found == \E i \in 1..Len(acc.updated_content) :
                         acc.updated_content[i] =
                             [text |-> link_info.text, link |-> link_info.link]
         IN  IF Truthy(link_info.suggested_fix) /\ found
             THEN fix_loop(Tail(links),
                      [acc EXCEPT !.updated_content = substitute(@, link_info),
                                  !.fixed = Append(@, link_info)])
             ELSE fix_loop(Tail(links), [acc EXCEPT !.manual = Append(@, link_info)])

\* fix_links, lines 238-275: one iteration of the loop over links_by_file, up
\* to open(full_path, 'w'), which truncates the file or raises
fix_links_file ==
    /\ tool = "link_campaign"
    /\ pc = "fix"
    /\ queue # <<>>
    /\ LET source_file == Head(queue)
           links == SelectSeq(broken_links, LAMBDA x : x.source = source_file)
           sorted == sort_pairs([i \in 1..Len(links) |->
                                    <<links[i], str_len(links[i].link)>>], TRUE)
           content == file_content[source_file]
           result == fix_loop([i \in 1..Len(sorted) |-> sorted[i][1]],
                              [updated_content |-> content, fixed |-> <<>>,
                               manual |-> <<>>])
       IN  /\ fixed_links' = fixed_links \o result.fixed
           /\ manual_review' = manual_review \o result.manual
           /\ IF content = result.updated_content
              THEN UNCHANGED <<doc_text, writes, pending, pc, exit_code>>
              ELSE IF source_file \in faults.unwritable
              THEN \* open() raises, and nothing catches it
                   /\ pc' = "crashed"
                   /\ exit_code' = 1
                   /\ UNCHANGED <<doc_text, writes, pending>>
              ELSE /\ doc_text' = [doc_text EXCEPT ![source_file] = <<>>]
                   /\ writes' = [writes EXCEPT ![source_file] = @ + 1]
                   /\ pending' = [path |-> source_file,
                                  content |-> result.updated_content]
                   /\ pc' = "write"
                   /\ UNCHANGED exit_code
    /\ queue' = Tail(queue)
    /\ UNCHANGED <<disk_files, all_files, custom_mappings, broken_links, tool>>
    /\ UNCHANGED <<mapping_file, file_content, args, iter_order, report, run,
                   first_fixed, faults>>
    /\ UNCHANGED onevars
    /\ UNCHANGED certvars

\* fix_links, line 276 and the end of the with block: the content is written
\* and the file closed
write_back ==
    /\ tool = "link_campaign"
    /\ pc = "write"
    /\ doc_text' = [doc_text EXCEPT ![pending.path] = pending.content]
    /\ pending' = <<>>
    /\ pc' = "fix"
    /\ UNCHANGED <<disk_files, all_files, custom_mappings, broken_links, fixed_links,
                   manual_review, tool>>
    /\ UNCHANGED <<mapping_file, file_content, args, iter_order, queue, report,
                   exit_code, run, first_fixed, faults, writes>>
    /\ UNCHANGED onevars
    /\ UNCHANGED certvars

\* fix_links, lines 285-286: the loop is over
fix_links_end ==
    /\ tool = "link_campaign"
    /\ pc = "fix"
    /\ queue = <<>>
    /\ pc' = "report"
    /\ UNCHANGED <<disk_files, all_files, custom_mappings, broken_links, fixed_links,
                   manual_review, tool>>
    /\ UNCHANGED campvars
    /\ UNCHANGED onevars
    /\ UNCHANGED iovars
    /\ UNCHANGED certvars

\* generate_report: the report is written to REPORT_PATH, a Markdown file of
\* the tree without any reference, and an absent mapping file is created empty
generate_report ==
    /\ tool = "link_campaign"
    /\ pc = "report"
    /\ report' = [total |-> Cardinality(all_files), broken |-> Len(broken_links),
                  fixed |-> fixed_links, manual |-> manual_review]
    /\ disk_files' = disk_files \cup {REPORT_PATH}
    /\ doc_text' = (REPORT_PATH :> <<>>) @@ doc_text
    /\ mapping_file' = IF mapping_file.state = "absent"
                       THEN [state |-> "table", table |-> NoMappings]
                       ELSE mapping_file
    /\ pc' = "finish"
    /\ UNCHANGED <<all_files, custom_mappings, broken_links, fixed_links, manual_review,
                   tool>>
    /\ UNCHANGED <<file_content, args, iter_order, queue, exit_code, run, first_fixed>>
    /\ UNCHANGED onevars
    /\ writes' = [f \in DOMAIN writes \cup {REPORT_PATH} |->
                     IF f = REPORT_PATH
                     THEN (IF f \in DOMAIN writes THEN writes[f] ELSE 0) + 1
                     ELSE writes[f]]
    /\ UNCHANGED <<faults, pending>>
    /\ UNCHANGED certvars

\* main, lines 389-399: save_custom_mappings under --fix without --report, and
\* the exit status
main_finish ==
    /\ tool = "link_campaign"
    /\ pc = "finish"
    /\ mapping_file' = IF ~args.report /\ args.fix
                       THEN [state |-> "table", table |-> custom_mappings]
                       ELSE mapping_file
    /\ exit_code' = IF manual_review = <<>> THEN 0 ELSE 1
    /\ pc' = "exit"
    /\ UNCHANGED <<disk_files, all_files, custom_mappings, broken_links, fixed_links,
                   manual_review, tool>>
    /\ UNCHANGED <<doc_text, file_content, args, iter_order, queue, report, run,
                   first_fixed>>
    /\ UNCHANGED onevars
    /\ UNCHANGED iovars
    /\ UNCHANGED certvars

\* after an apply run, the campaign is started again without --fix: a new
\* process with a new LinkDatabase (LinkDatabase.__init__) analyses the tree
analyze_again ==
    /\ tool = "link_campaign"
    /\ pc = "exit"
    /\ run = 1
    /\ args.fix
    /\ run' = 2
    /\ first_fixed' = fixed_links
    /\ args' = [fix |-> FALSE, report |-> FALSE]
    /\ all_files' = {}
    /\ file_content' = NoMappings
    /\ broken_links' = <<>>
    /\ fixed_links' = <<>>
    /\ manual_review' = <<>>
    /\ custom_mappings' = NoMappings
    /\ iter_order' = <<>>
    /\ queue' = <<>>
    /\ exit_code' = -1
    /\ pc' = "load"
    /\ UNCHANGED <<disk_files, tool, doc_text, mapping_file, report>>
    /\ UNCHANGED onevars
    /\ UNCHANGED iovars
    /\ UNCHANGED certvars

\* the most references the document docs/guide.md holds
MaxLinks == 2

\* the most Markdown files the tree holds besides docs/guide.md and README.md
MaxExtra == 1

Guide == <<"docs", "/", "guide.md">>
Readme == <<"README.md">>

ExtraPool ==
    { <<"docs", "/", "install", "/", "setup.md">>,
      <<"docs", "/", "new.md">> }

\* a file os.walk does not reach: it lies in a hidden directory
HiddenFile == <<".", "git", "/", "setup.md">>

CampaignLinks ==
    { <<"setup.md">>,
      <<"old.md">>,
      <<"old.md", "#", "install">>,
      <<"install", "/", "setup.md">> }

CampaignRefs == {[text |-> <<"x">>, link |-> l] : l \in CampaignLinks}

GuideTexts == UNION {[1..n -> CampaignRefs] : n \in 1..MaxLinks}

ReadmeTexts == { <<>>, <<[text |-> <<"x">>, link |-> <<"setup.md">>]>> }

MappingFiles ==
    { [state |-> "absent", table |-> NoMappings],
      [state |-> "malformed", table |-> NoMappings],
      [state |-> "number", table |-> NoMappings],
      [state |-> "table", table |-> <<"old.md">> :> <<"new.md">>],
      [state |-> "table", table |-> <<"setup.md">> :> <<"missing.md">>] }

\* a tree of documents, a mapping file and the flags of the command line, with
\* the state of a process that has just started
Documents ==
    /\ pc = "load"
    /\ \E extra \in SUBSET ExtraPool :
         /\ Cardinality(extra) <= MaxExtra
         /\ disk_files = {Guide, Readme, HiddenFile} \cup extra
    /\ \E guide \in GuideTexts : \E readme \in ReadmeTexts :
         doc_text = [f \in disk_files |->
                        IF f = Guide THEN guide ELSE IF f = Readme THEN readme ELSE <<>>]
    /\ mapping_file \in MappingFiles
    /\ args \in [fix : BOOLEAN, report : BOOLEAN]
    /\ all_files = {}
    /\ file_content = NoMappings
    /\ broken_links = <<>>
    /\ fixed_links = <<>>
    /\ manual_review = <<>>
    /\ custom_mappings = NoMappings
    /\ iter_order = <<>>
    /\ queue = <<>>
    /\ report = <<>>
    /\ exit_code = -1
    /\ run = 1
    /\ first_fixed = <<>>
    /\ ref = <<>>
    /\ all_broken_links = <<>>
    /\ all_valid_links = <<>>
    /\ errors = <<>>
    /\ exists_calls = {}
    /\ writes = [f \in disk_files |-> 0]
    /\ pending = <<>>
    /\ NoCalls

\* main, lines 373-375: a fresh LinkDatabase over a tree of documents
Tree == tool = "link_campaign" /\ Documents

\* a tree on which every open() succeeds
Init == Tree /\ faults = NoFaults

Next ==
    \/ load_custom_mappings
    \/ scan_all_files
    \/ check_links_file
    \/ check_links_end
    \/ fix_links_file
    \/ write_back
    \/ fix_links_end
    \/ generate_report
    \/ main_finish
    \/ analyze_again

Spec == Init /\ [][Next]_vars

\* one apply run: main with --fix (lines 382 and 225-226)
ApplyInit == Init /\ args.fix

ApplyNext ==
    \/ load_custom_mappings
    \/ scan_all_files
    \/ check_links_file
    \/ check_links_end
    \/ fix_links_file
    \/ write_back
    \/ fix_links_end
    \/ generate_report
    \/ main_finish

SpecApply == ApplyInit /\ [][ApplyNext]_vars

\* one document of the tree cannot be opened for reading, or for writing
Faulty ==
    {[unreadable |-> {d}, unwritable |-> {}] : d \in {Guide, Readme}}
    \cup {[unreadable |-> {}, unwritable |-> {d}] : d \in {Guide, Readme}}

\* the only fault of the run: the mapping file loads
FaultInit == Tree /\ faults \in Faulty /\ mapping_file.state # "number"

SpecFault == FaultInit /\ [][ApplyNext]_vars

-----------------------------------------------------------------------------
(* scripts/simple_link_campaign.py: a whole run of main *)

\* the lexemes of the paths of the tree, in the order of Python's str
\* comparison (code points: '.' < '/' < 'R' < 'd' < 'g' < 'i' < 'l' < 'n' < 's')
LexOrder ==
    <<".", "/", "README.md", "docs", "git", "guide.md", "install",
      "link_campaign_report.md", "new.md", "setup.md">>

lex_rank(x) == CHOOSE i \in 1..Len(LexOrder) : LexOrder[i] = x

\* a < b on two str; no lexeme of the tree is a prefix of another one, so the
\* first differing lexeme decides as the first differing character does
RECURSIVE str_lt(_, _)
str_lt(a, b) ==
    IF b = <<>> THEN FALSE
    ELSE IF a = <<>> THEN TRUE
    ELSE IF a[1] = b[1] THEN str_lt(Tail(a), Tail(b))
    ELSE lex_rank(a[1]) < lex_rank(b[1])

\* main, line 279: sorted(all_files)
sorted_files(S) ==
    CHOOSE o \in Orders(S) : \A i \in 1..(Len(o) - 1) : str_lt(o[i], o[i + 1])

\* check_links_in_file, lines 135-162: the two lists the loop over the
\* references of file_path returns
RECURSIVE simple_checked(_, _, _)
simple_checked(file_path, links, files) ==
    IF links = <<>> THEN [broken |-> <<>>, valid |-> <<>>]
    ELSE LET rest == simple_checked(file_path, Tail(links), files)
             full_path == simple_full_path(file_path, links[1].link)
             entry == [source |-> file_path, text |-> links[1].text,
                       link |-> links[1].link, resolved |-> full_path]
         IN  IF simple_skipped_link(links[1].link) THEN rest
             ELSE IF exists(path_join(ROOT_DIR, full_path), files)
             THEN [broken |-> rest.broken, valid |-> <<entry>> \o rest.valid]
             ELSE [broken |-> <<entry>> \o rest.broken, valid |-> rest.valid]

\* fix_links_in_file, lines 181-186: re.sub of "](old_link)" by "](new_link)",
\* whatever the text of the reference is
simple_substitute(content, old_link, new_link) ==
    [i \in 1..Len(content) |->
        IF content[i].link = old_link
        THEN [text |-> content[i].text, link |-> new_link]
        ELSE content[i]]

\* lines 26-34, run when the module is loaded: any Exception leaves the table
\* empty; a file that holds a JSON number is loaded as it is (see simple_resolve)
simple_load_mappings ==
    /\ tool = "simple_link_campaign"
    /\ pc = "load"
    /\ custom_mappings' = IF mapping_file.state = "table" THEN mapping_file.table
                          ELSE custom_mappings
    /\ pc' = "scan"
    /\ UNCHANGED <<disk_files, all_files, broken_links, fixed_links, manual_review, tool>>
    /\ UNCHANGED <<doc_text, mapping_file, file_content, args, iter_order, queue,
                   report, exit_code, run, first_fixed>>
    /\ UNCHANGED onevars
    /\ UNCHANGED iovars
    /\ UNCHANGED certvars

\* find_markdown_files, lines 40-59, and sorted(all_files) of main, line 279
find_markdown_files ==
    /\ tool = "simple_link_campaign"
    /\ pc = "scan"
    /\ all_files' = all_files \cup scanned(disk_files)
    /\ queue' = sorted_files(all_files')
    /\ pc' = "check"
    /\ UNCHANGED <<disk_files, custom_mappings, broken_links, fixed_links, manual_review,
                   tool>>
    /\ UNCHANGED <<doc_text, mapping_file, file_content, args, iter_order, report,
                   exit_code, run, first_fixed>>
    /\ UNCHANGED onevars
    /\ UNCHANGED iovars
    /\ UNCHANGED certvars

\* main, lines 279-285: one iteration of the loop over sorted(all_files); a
\* document that cannot be read gives two empty lists (lines 124-129)
simple_check_file ==
    /\ tool = "simple_link_campaign"
    /\ pc = "check"
    /\ queue # <<>>
    /\ LET file_path == Head(queue)
       IN  IF file_path \notin disk_files \/ file_path \in faults.unreadable
           THEN UNCHANGED <<all_broken_links, all_valid_links>>
           ELSE LET result == simple_checked(file_path, doc_text[file_path], disk_files)
                IN  /\ all_broken_links' = all_broken_links \o result.broken
                    /\ all_valid_links' = all_valid_links \o result.valid
    /\ queue' = Tail(queue)
    /\ UNCHANGED <<disk_files, all_files, custom_mappings, ref, broken_links,
                   fixed_links, manual_review, errors, exists_calls, tool, pc>>
    /\ UNCHANGED <<doc_text, mapping_file, file_content, args, iter_order, report,
                   exit_code, run, first_fixed>>
    /\ UNCHANGED iovars
    /\ UNCHANGED certvars

\* main, lines 287-297: the loop over the documents is over
simple_check_end ==
    /\ tool = "simple_link_campaign"
    /\ pc = "check"
    /\ queue = <<>>
    /\ pc' = "resolve"
    /\ UNCHANGED <<disk_files, all_files, custom_mappings, broken_links, fixed_links,
                   manual_review, tool>>
    /\ UNCHANGED <<doc_text, mapping_file, file_content, args, iter_order, queue, report,
                   exit_code, run, first_fixed>>
    /\ UNCHANGED onevars
    /\ UNCHANGED iovars
    /\ UNCHANGED certvars

\* the position of the loop of main, line 299, in all_broken_links
resolve_index == Len(fixed_links) + Len(manual_review) + 1

\* main, lines 299-316: one iteration of the loop over all_broken_links, with
\* the call of fix_links_in_file (lines 167-199) under --fix. The document is
\* opened for writing and written in this one step.
simple_resolve ==
    /\ tool = "simple_link_campaign"
    /\ pc = "resolve"
    /\ resolve_index <= Len(all_broken_links)
    /\ IF mapping_file.state = "number"
       THEN \* line 65: `broken_link in custom_mappings` on an int, a TypeError
            /\ pc' = "crashed"
            /\ exit_code' = 1
            /\ UNCHANGED <<all_broken_links, fixed_links, manual_review, doc_text, writes>>
       ELSE \E order \in Orders(all_files) :
         LET broken_link == all_broken_links[resolve_index]
             suggested_fix == simple_find_best_match(broken_link.link, broken_link.source,
                                                     custom_mappings, order)
             fields == {"source", "text", "link", "resolved", "suggested_fix"}
             updated == [k \in fields |->
                            IF k = "suggested_fix"
                            THEN (IF Truthy(suggested_fix) THEN suggested_fix ELSE None)
                            ELSE broken_link[k]]
             file_path == broken_link.source
             content == doc_text[file_path]
             new_content == simple_substitute(content, broken_link.link, suggested_fix)
         IN  /\ all_broken_links' = [all_broken_links EXCEPT ![resolve_index] = updated]
             /\ UNCHANGED <<pc, exit_code>>
             /\ IF Truthy(suggested_fix)
                THEN /\ fixed_links' = Append(fixed_links, updated)
                     /\ UNCHANGED manual_review
                     /\ IF /\ args.fix
                           /\ file_path \notin faults.unreadable
                           /\ new_content # content
                           /\ file_path \notin faults.unwritable
                        THEN /\ doc_text' = [doc_text EXCEPT ![file_path] = new_content]
                             /\ writes' = [writes EXCEPT ![file_path] = @ + 1]
                        ELSE UNCHANGED <<doc_text, writes>>
                ELSE /\ manual_review' = Append(manual_review, updated)
                     /\ UNCHANGED <<fixed_links, doc_text, writes>>
    /\ UNCHANGED <<disk_files, all_files, custom_mappings, ref, broken_links,
                   all_valid_links, errors, exists_calls, tool>>
    /\ UNCHANGED <<mapping_file, file_content, args, iter_order, queue, report, run,
                   first_fixed>>
    /\ UNCHANGED <<faults, pending>>
    /\ UNCHANGED certvars

\* main, line 318: the loop over all_broken_links is over
simple_resolve_end ==
    /\ tool = "simple_link_campaign"
    /\ pc = "resolve"
    /\ resolve_index > Len(all_broken_links)
    /\ pc' = "report"
    /\ UNCHANGED <<disk_files, all_files, custom_mappings, broken_links, fixed_links,
                   manual_review, tool>>
    /\ UNCHANGED <<doc_text, mapping_file, file_content, args, iter_order, queue, report,
                   exit_code, run, first_fixed>>
    /\ UNCHANGED onevars
    /\ UNCHANGED iovars
    /\ UNCHANGED certvars

\* generate_report, lines 202-254
simple_generate_report ==
    /\ tool = "simple_link_campaign"
    /\ pc = "report"
    /\ report' = [broken |-> Len(all_broken_links), fixed |-> fixed_links,
                  manual |-> manual_review, dry_run |-> ~args.fix]
    /\ disk_files' = disk_files \cup {REPORT_PATH}
    /\ doc_text' = (REPORT_PATH :> <<>>) @@ doc_text
    /\ writes' = [f \in DOMAIN writes \cup {REPORT_PATH} |->
                     IF f = REPORT_PATH
                     THEN (IF f \in DOMAIN writes THEN writes[f] ELSE 0) + 1
                     ELSE writes[f]]
    /\ pc' = "finish"
    /\ UNCHANGED <<all_files, custom_mappings, broken_links, fixed_links, manual_review,
                   tool>>
    /\ UNCHANGED <<mapping_file, file_content, args, iter_order, queue, exit_code, run,
                   first_fixed>>
    /\ UNCHANGED onevars
    /\ UNCHANGED <<faults, pending>>
    /\ UNCHANGED certvars

\* main, line 335: the exit status
simple_main_end ==
    /\ tool = "simple_link_campaign"
    /\ pc = "finish"
    /\ exit_code' = IF Len(all_broken_links) = Len(fixed_links) THEN 0 ELSE 1
    /\ pc' = "exit"
    /\ UNCHANGED <<disk_files, all_files, custom_mappings, broken_links, fixed_links,
                   manual_review, tool>>
    /\ UNCHANGED <<doc_text, mapping_file, file_content, args, iter_order, queue, report,
                   run, first_fixed>>
    /\ UNCHANGED onevars
    /\ UNCHANGED iovars
    /\ UNCHANGED certvars

\* a process that has just imported simple_link_campaign, on a tree with at
\* most one document that cannot be opened
SimpleInit ==
    /\ tool = "simple_link_campaign"
    /\ Documents
    /\ faults \in {NoFaults} \cup Faulty

SimpleNext ==
    \/ simple_load_mappings
    \/ find_markdown_files
    \/ simple_check_file
    \/ simple_check_end
    \/ simple_resolve
    \/ simple_resolve_end
    \/ simple_generate_report
    \/ simple_main_end

SpecSimple == SimpleInit /\ [][SimpleNext]_vars

-----------------------------------------------------------------------------
(* scripts/certik/update_metrics.py *)

\* the most update_metrics calls made on one metrics file
MaxCalls == 3

\* the values argparse hands to update_metrics: --issue is required, the
\* other options are None when they are not given
IssueIds == { <<"101">>, <<"102">> }
Severities == { <<"Critical">>, <<"Low">>, None }
Components == { <<"PSBT Manager">>, None }
Bips == { <<"370">>, None }
Statuses == { <<"open">>, <<"closed">>, None }

\* the keys of metrics["summary"]
SummaryKeys ==
    { <<"critical">>, <<"high">>, <<"medium">>, <<"low">>, <<"fixed">>, <<"pending">> }

\* load_metrics, lines 10-28: the empty tracker when METRICS_FILE is absent,
\* and otherwise what json.load gives back: every key is a str and every
\* counter an int, which json.dump and json.load keep as they are
load_metrics(file, now) ==
    IF ~file.exists
    THEN [issues |-> NoMappings, components |-> NoMappings, bips |-> NoMappings,
          summary |-> [k \in SummaryKeys |-> 0], updated_at |-> now]
    ELSE file.data

\* the close of update_metrics without the decrement of line 37
close_issue_keeps_severity(metrics, issue_id, now) ==
    IF issue_id \in DOMAIN metrics.issues
    THEN LET issue == metrics.issues[issue_id]
             fixed_issue == [k \in DOMAIN issue \cup {"fixed_at"} |->
                                IF k = "fixed_at" THEN now
                                ELSE IF k = "status" THEN <<"fixed">>
                                ELSE issue[k]]
         IN  [metrics EXCEPT
                 !.summary = [@ EXCEPT ![<<"fixed">>] = @ + 1,
                                       ![<<"pending">>] = @ - 1],
                 !.issues = [@ EXCEPT ![issue_id] = fixed_issue]]
    ELSE metrics

\* update_metrics, lines 35-41: status "closed"
close_issue(metrics, issue_id, now) ==
    IF issue_id \in DOMAIN metrics.issues
    THEN LET old_severity == lower(metrics.issues[issue_id].severity)
             issue == metrics.issues[issue_id]
             fixed_issue == [k \in DOMAIN issue \cup {"fixed_at"} |->
                                IF k = "fixed_at" THEN now
                                ELSE IF k = "status" THEN <<"fixed">>
                                ELSE issue[k]]
         IN  [metrics EXCEPT
                 !.summary = [@ EXCEPT ![old_severity] = @ - 1,
                                       ![<<"fixed">>] = @ + 1,
                                       ![<<"pending">>] = @ - 1],
                 !.issues = [@ EXCEPT ![issue_id] = fixed_issue]]
    ELSE metrics

\* the open of update_metrics without the count of line 52
open_issue_uncounted(metrics, issue_id, severity, component, bip, now) ==
    IF issue_id \notin DOMAIN metrics.issues
    THEN [metrics EXCEPT
             !.issues = (issue_id :> [severity |-> lower(severity),
                                      component |-> component,
                                      bip |-> bip,
                                      created_at |-> now,
                                      status |-> <<"pending">>]) @@ @,
             !.summary = [@ EXCEPT ![lower(severity)] = @ + 1]]
    ELSE metrics

\* update_metrics, lines 43-52: any other status
open_issue(metrics, issue_id, severity, component, bip, now) ==
    IF issue_id \notin DOMAIN metrics.issues
    THEN [metrics EXCEPT
             !.issues = (issue_id :> [severity |-> lower(severity),
                                      component |-> component,
                                      bip |-> bip,
                                      created_at |-> now,
                                      status |-> <<"pending">>]) @@ @,
             !.summary = [@ EXCEPT ![lower(severity)] = @ + 1,
                                   ![<<"pending">>] = @ + 1]]
    ELSE metrics

\* the counters of one component or BIP with lines 58-61 taking the else
\* branch for every status
update_counts_as_open(table, key, status) ==
    IF ~Truthy(key) THEN table
    ELSE LET known == IF key \in DOMAIN table THEN table
                      ELSE (key :> [issues |-> 0, fixed |-> 0]) @@ table
         IN  [known EXCEPT ![key] = [@ EXCEPT !.issues = @ + 1]]

\* update_metrics, lines 55-61 and 64-70: the counters of one component or BIP
update_counts(table, key, status) ==
    IF ~Truthy(key) THEN table
    ELSE LET known == IF key \in DOMAIN table THEN table
                      ELSE (key :> [issues |-> 0, fixed |-> 0]) @@ table
         IN  [known EXCEPT ![key] = IF status = <<"closed">>
                                    THEN [@ EXCEPT !.fixed = @ + 1]
                                    ELSE [@ EXCEPT !.issues = @ + 1]]

\* update_metrics, lines 43-45: severity.lower() on None, an AttributeError
\* that nothing catches; METRICS_FILE is not written
raises(metrics, issue_id, severity, status) ==
    /\ status # <<"closed">>
    /\ issue_id \notin DOMAIN metrics.issues
    /\ severity = None

\* update_metrics, lines 31-72: the metrics that are saved
updated_metrics(metrics, issue_id, severity, component, bip, status, now) ==
    LET tracked == IF status = <<"closed">> THEN close_issue(metrics, issue_id, now)
                   ELSE open_issue(metrics, issue_id, severity, component, bip, now)
    IN  [tracked EXCEPT !.components = update_counts(@, component, status),
                        !.bips = update_counts(@, bip, status),
                        !.updated_at = now]

\* update_metrics: one call, one process; datetime.now() is the number of the call
update_metrics ==
    /\ tool = "update_metrics"
    /\ calls < MaxCalls
    /\ calls' = calls + 1
    /\ \E issue_id \in IssueIds, severity \in Severities, component \in Components,
          bip \in Bips, status \in Statuses :
         LET now == calls + 1
             metrics == load_metrics(metrics_file, now)
             raised == raises(metrics, issue_id, severity, status)
         IN  /\ call' = [issue_id |-> issue_id, severity |-> severity,
                         component |-> component, bip |-> bip, status |-> status,
                         raised |-> raised]
             /\ metrics_file' =
                    IF raised THEN metrics_file
                    ELSE [exists |-> TRUE,
                          data |-> updated_metrics(metrics, issue_id, severity, component,
                                                   bip, status, now)]
    /\ UNCHANGED <<refvars, campvars, iovars>>

\* no link tool runs
NoCampaign ==
    /\ disk_files = {}
    /\ all_files = {}
    /\ custom_mappings = NoMappings
    /\ ref = <<>>
    /\ broken_links = <<>>
    /\ all_broken_links = <<>>
    /\ all_valid_links = <<>>
    /\ fixed_links = <<>>
    /\ manual_review = <<>>
    /\ errors = <<>>
    /\ exists_calls = {}
    /\ pc = "idle"
    /\ doc_text = NoMappings
    /\ mapping_file = [state |-> "absent", table |-> NoMappings]
    /\ file_content = NoMappings
    /\ args = [fix |-> FALSE, report |-> FALSE]
    /\ iter_order = <<>>
    /\ queue = <<>>
    /\ report = <<>>
    /\ exit_code = -1
    /\ run = 1
    /\ first_fixed = <<>>
    /\ faults = NoFaults
    /\ writes = NoMappings
    /\ pending = <<>>

\* METRICS_FILE is absent and update_metrics is about to be called
MetricsInit == tool = "update_metrics" /\ NoCampaign /\ NoCalls

MetricsNext == update_metrics

SpecMetrics == MetricsInit /\ [][MetricsNext]_vars

-----------------------------------------------------------------------------
(* scripts/link_fixer.py *)

\* link_regex, line 8: the negative lookahead (?!http) on the target
fixer_matches(link) == ~StartsWith(link, <<"http">>)

\* fix_links, lines 19-24: the documents os.walk reaches without entering a
\* directory named .git
fixer_documents(files) ==
    {f \in files :
        /\ is_markdown(basename(f))
        /\ LET comps == split(f, "/")
           IN  \A i \in 1..(Len(comps) - 1) : comps[i] # <<".", "git">>}

\* find_target, lines 10-14: the files os.walk(root_dir) can meet first; it
\* lists a directory before its subdirectories, and these in the order of
\* the file system
find_target(filename, files) ==
    LET named == {f \in files : basename(f) = filename}
        dir_of(f) == NonEmpty(split(dirname(f), "/"))
        first == {f \in named :
                     \A g \in named : g = f \/ dir_of(f) = dir_of(g)
                                      \/ ~IsPrefix(dir_of(g), dir_of(f))}
    IN  IF filename = <<>> \/ first = {} THEN {None}
        ELSE {path_join(ROOT_DIR, f) : f \in first}

\* repl, lines 30-45, on one reference of a document of directory root: the
\* reference that takes its place and whether a [FIX] line is written;
\* new_abs is what find_target returned
repl(root, m, new_abs, files) ==
    LET link == split(m.link, "#")[1]
        keep == [out |-> m, fix |-> FALSE]
    IN  IF ~fixer_matches(m.link) THEN keep
        ELSE IF ~Truthy(link) \/ StartsWith(link, <<"/">>) THEN keep
        ELSE IF exists(normpath(path_join(root, link)), files) THEN keep
        ELSE IF Truthy(new_abs)
        THEN [out |-> [text |-> m.text, link |-> relpath(new_abs, root)], fix |-> TRUE]
        ELSE keep

\* the file names find_target is asked for while the lines of a document are
\* rewritten, one per reference (the empty name for a reference repl keeps
\* before line 38)
fixer_targets(root, content, files) ==
    [i \in 1..Len(content) |->
        LET link == split(content[i].link, "#")[1]
        IN  IF /\ fixer_matches(content[i].link)
               /\ Truthy(link) /\ ~StartsWith(link, <<"/">>)
               /\ ~exists(normpath(path_join(root, link)), files)
            THEN find_target(basename(link), files)
            ELSE {None}]

\* the sequences that take one member of each set of the sequence `sets`
RECURSIVE choices(_)
choices(sets) ==
    IF sets = <<>> THEN {<<>>}
    ELSE {<<x>> \o rest : x \in sets[1], rest \in choices(Tail(sets))}

\* main, lines 53-55, and the order in which os.walk gives the documents
fixer_start ==
    /\ tool = "link_fixer"
    /\ pc = "load"
    /\ queue' \in Orders(fixer_documents(disk_files))
    /\ pc' = "walk"
    /\ UNCHANGED <<disk_files, all_files, custom_mappings, broken_links, fixed_links,
                   manual_review, tool>>
    /\ UNCHANGED <<doc_text, mapping_file, file_content, args, iter_order, report,
                   exit_code, run, first_fixed>>
    /\ UNCHANGED onevars
    /\ UNCHANGED iovars
    /\ UNCHANGED certvars

\* fix_links, lines 25-50: one document. `updated` is the variable of
\* fix_links set at line 26; the assignment of line 43 binds a variable of
\* repl of the same name, so line 48 reads what line 26 stored
fixer_file ==
    /\ tool = "link_fixer"
    /\ pc = "walk"
    /\ queue # <<>>
    /\ LET fpath == Head(queue)
           root == path_join(ROOT_DIR, dirname(fpath))
           content == doc_text[fpath]
       IN  \E found \in choices(fixer_targets(root, content, disk_files)) :
             LET replaced == [i \in 1..Len(content) |->
                                 repl(root, content[i], found[i], disk_files)]
                 lines == [i \in 1..Len(content) |-> replaced[i].out]
                 fixes == SelectSeq([i \in 1..Len(content) |->
                                        [file |-> fpath, link |-> content[i].link,
                                         rel |-> replaced[i].out.link,
                                         fix |-> replaced[i].fix]],
                                    LAMBDA line : line.fix)
                 updated == FALSE
             IN  /\ report' = report \o fixes
                 /\ IF updated
                    THEN /\ doc_text' = [doc_text EXCEPT ![fpath] = lines]
                         /\ writes' = [writes EXCEPT ![fpath] = @ + 1]
                    ELSE UNCHANGED <<doc_text, writes>>
    /\ queue' = Tail(queue)
    /\ UNCHANGED <<disk_files, all_files, custom_mappings, broken_links, fixed_links,
                   manual_review, tool, pc>>
    /\ UNCHANGED <<mapping_file, file_content, args, iter_order, exit_code, run,
                   first_fixed>>
    /\ UNCHANGED onevars
    /\ UNCHANGED <<faults, pending>>
    /\ UNCHANGED certvars

\* fix_links, line 51: "Link fixing completed."
fixer_end ==
    /\ tool = "link_fixer"
    /\ pc = "walk"
    /\ queue = <<>>
    /\ pc' = "exit"
    /\ exit_code' = 0
    /\ UNCHANGED <<disk_files, all_files, custom_mappings, broken_links, fixed_links,
                   manual_review, tool>>
    /\ UNCHANGED <<doc_text, mapping_file, file_content, args, iter_order, queue, report,
                   run, first_fixed>>
    /\ UNCHANGED onevars
    /\ UNCHANGED iovars
    /\ UNCHANGED certvars

\* link_fixer.py is started in the root of a tree of documents
FixerInit ==
    /\ tool = "link_fixer"
    /\ Documents
    /\ faults = NoFaults
    /\ mapping_file.state = "absent"
    /\ args = [fix |-> FALSE, report |-> FALSE]

FixerNext ==
    \/ fixer_start
    \/ fixer_file
    \/ fixer_end

SpecFixer == FixerInit /\ [][FixerNext]_vars

-----------------------------------------------------------------------------
(* scripts/fix_critical_links.py *)

\* CRITICAL_FILES, lines 16-29, relative to ROOT_DIR
CRITICAL_FILES ==
    << <<"docs", "/", "installation", "/", "README.md">>,
       <<"ROOT_INDEX.md">>,
       <<"docs", "/", "SYSTEM_MAP.md">>,
       <<"DOCUMENTATION_CLEANUP_PLAN.md">>,
       <<"DOCUMENTATION_CLEANUP_SUMMARY.md">>,
       <<"DOCUMENTATION_TRUTH_REVIEW.md">>,
       <<"DOCUMENTATION_LINK_CAMPAIGN_CONSOLIDATED.md">>,
       <<"MISSING_DOCUMENTATION_REFERENCE.md">>,
       <<"INSTALLATION.md">>,
       <<"CONTRIBUTING.md">>,
       <<"README.md">>,
       <<"docs", "/", "README.md">> >>

\* the mappings of lines 41-46, used when link_mappings.json cannot be loaded
DefaultFixes ==
    (<<"troubleshooting.md">> :> <<"..", "/", "TROUBLESHOOTING.md">>)
    @@ (<<".", "/", "troubleshooting.md">> :> <<"troubleshooting.md">>)
    @@ (<<".", "/", "related1.md">> :> <<"..", "/", "INSTALLATION.md">>)
    @@ (<<".", "/", "related2.md">> :> <<"..", "/", "INSTALLATION_REVIEW.md">>)

\* lines 32-47: critical_link_fixes after the module is loaded. open() of an
\* absent file, json.load of a malformed one and len() of a JSON number all
\* raise inside the try, and the handler installs the default mappings
load_critical_fixes(file) ==
    IF file.state = "table" THEN file.table ELSE DefaultFixes

\* fix_file, lines 75-77: content.replace(old_link, new_link_text)
critical_replace(content, link_text, link_path, new_link) ==
    [i \in 1..Len(content) |->
        IF content[i] = [text |-> link_text, link |-> link_path]
        THEN [text |-> link_text, link |-> new_link]
        ELSE content[i]]

\* fix_file, lines 67-79: the loop over the references found in the content
\* that was read
RECURSIVE fix_file_loop(_, _, _, _)
fix_file_loop(links, content, fixed_count, fixes) ==
    IF links = <<>> THEN [content |-> content, fixed_count |-> fixed_count]
    ELSE IF \/ StartsWith(links[1].link, <<"http", "://">>)
            \/ StartsWith(links[1].link, <<"http", "s", "://">>)
    THEN fix_file_loop(Tail(links), content, fixed_count, fixes)
    ELSE IF links[1].link \in DOMAIN fixes
    THEN fix_file_loop(Tail(links),
                       critical_replace(content, links[1].text, links[1].link,
                                        fixes[links[1].link]),
                       fixed_count + 1, fixes)
    ELSE fix_file_loop(Tail(links), content, fixed_count, fixes)

\* lines 32-47, run when the module is loaded
critical_load ==
    /\ tool = "fix_critical_links"
    /\ pc = "load"
    /\ custom_mappings' = load_critical_fixes(mapping_file)
    /\ queue' = CRITICAL_FILES
    /\ pc' = "fix"
    /\ UNCHANGED <<disk_files, all_files, broken_links, fixed_links, manual_review, tool>>
    /\ UNCHANGED <<doc_text, mapping_file, file_content, args, iter_order, report,
                   exit_code, run, first_fixed>>
    /\ UNCHANGED onevars
    /\ UNCHANGED iovars
    /\ UNCHANGED certvars

\* main, lines 99-102, with fix_file, lines 53-89: one file of CRITICAL_FILES;
\* report holds what each call of fix_file returned
critical_fix_file ==
    /\ tool = "fix_critical_links"
    /\ pc = "fix"
    /\ queue # <<>>
    /\ LET file_path == Head(queue)
       IN  IF file_path \notin disk_files
           THEN /\ report' = Append(report, [file |-> file_path, run |-> run,
                                             fixed_count |-> 0])
                /\ UNCHANGED <<doc_text, writes>>
           ELSE LET original_content == doc_text[file_path]
                    result == fix_file_loop(original_content, original_content, 0,
                                            custom_mappings)
                IN  /\ report' = Append(report, [file |-> file_path, run |-> run,
                                                 fixed_count |-> result.fixed_count])
                    /\ IF result.content # original_content
                       THEN /\ doc_text' = [doc_text EXCEPT ![file_path] = result.content]
                            /\ writes' = [writes EXCEPT ![file_path] = @ + 1]
                       ELSE UNCHANGED <<doc_text, writes>>
    /\ queue' = Tail(queue)
    /\ UNCHANGED <<disk_files, all_files, custom_mappings, broken_links, fixed_links,
                   manual_review, tool, pc>>
    /\ UNCHANGED <<mapping_file, file_content, args, iter_order, exit_code, run,
                   first_fixed>>
    /\ UNCHANGED onevars
    /\ UNCHANGED <<faults, pending>>
    /\ UNCHANGED certvars

\* main, lines 104-108: always 0
critical_main_end ==
    /\ tool = "fix_critical_links"
    /\ pc = "fix"
    /\ queue = <<>>
    /\ exit_code' = 0
    /\ pc' = "exit"
    /\ UNCHANGED <<disk_files, all_files, custom_mappings, broken_links, fixed_links,
                   manual_review, tool>>
    /\ UNCHANGED <<doc_text, mapping_file, file_content, args, iter_order, queue, report,
                   run, first_fixed>>
    /\ UNCHANGED onevars
    /\ UNCHANGED iovars
    /\ UNCHANGED certvars

\* the script is started a second time on the tree the first run left;
\* file_content keeps what the documents held before the first run
critical_again ==
    /\ tool = "fix_critical_links"
    /\ pc = "exit"
    /\ run = 1
    /\ run' = 2
    /\ custom_mappings' = NoMappings
    /\ exit_code' = -1
    /\ pc' = "load"
    /\ UNCHANGED <<disk_files, all_files, broken_links, fixed_links, manual_review, tool>>
    /\ UNCHANGED <<doc_text, mapping_file, file_content, args, iter_order, queue, report,
                   first_fixed>>
    /\ UNCHANGED onevars
    /\ UNCHANGED iovars
    /\ UNCHANGED certvars

CriticalLinks ==
    { <<"troubleshooting.md">>,
      <<".", "/", "troubleshooting.md">>,
      <<".", "/", "related1.md">>,
      <<"old.md">>,
      <<"http", "s", "://", "example.com">> }

CriticalRefs == {[text |-> <<"x">>, link |-> l] : l \in CriticalLinks}

CriticalTexts == UNION {[1..n -> CriticalRefs] : n \in 0..MaxLinks}

\* the mapping files of the campaign, and one whose table maps a key to itself
CriticalMappingFiles ==
    MappingFiles
    \cup {[state |-> "table", table |-> <<"old.md">> :> <<"old.md">>]}

\* fix_critical_links.py is started on a tree that holds README.md and may
\* hold docs/README.md, two of the CRITICAL_FILES
CriticalInit ==
    /\ tool = "fix_critical_links"
    /\ pc = "load"
    /\ \E docs \in SUBSET {<<"docs", "/", "README.md">>} :
         disk_files = {Readme} \cup docs
    /\ \E readme \in CriticalTexts :
         doc_text = [f \in disk_files |->
                        IF f = Readme THEN readme
                        ELSE <<[text |-> <<"x">>, link |-> <<"troubleshooting.md">>]>>]
    /\ file_content = doc_text
    /\ mapping_file \in CriticalMappingFiles
    /\ args = [fix |-> FALSE, report |-> FALSE]
    /\ all_files = {}
    /\ broken_links = <<>>
    /\ fixed_links = <<>>
    /\ manual_review = <<>>
    /\ custom_mappings = NoMappings
    /\ iter_order = <<>>
    /\ queue = <<>>
    /\ report = <<>>
    /\ exit_code = -1
    /\ run = 1
    /\ first_fixed = <<>>
    /\ ref = <<>>
    /\ all_broken_links = <<>>
    /\ all_valid_links = <<>>
    /\ errors = <<>>
    /\ exists_calls = {}
    /\ faults = NoFaults
    /\ writes = [f \in disk_files |-> 0]
    /\ pending = <<>>
    /\ NoCalls

CriticalNext ==
    \/ critical_load
    \/ critical_fix_file
    \/ critical_main_end
    \/ critical_again

SpecCritical == CriticalInit /\ [][CriticalNext]_vars

-----------------------------------------------------------------------------
(* Properties of the resolution of one reference (SpecRef) *)

Range(seq) == {seq[i] : i \in 1..Len(seq)}

\* the results of find_best_match the running script has recorded
Suggestions ==
    {[source |-> b.source, link |-> b.link, fix |-> b.suggested_fix] :
        b \in Range(broken_links) \cup Range(fixed_links) \cup Range(manual_review)}

\* find_best_match of the running script
ToolBestMatch(link, source, order) ==
    IF tool = "link_campaign"
    THEN find_best_match(link, source, custom_mappings, order)
    ELSE simple_find_best_match(link, source, custom_mappings, order)

\* the part of a raw target before its first '#', and the part after it
PathPart(link) == split(link, "#")[1]
Fragment(link) == SubSeq(link, Find(link, "#") + 1, Len(link))
HasFragment(link) == Find(link, "#") > 0

\* the document (relative to ROOT_DIR) that `target` denotes from the
\* directory of document `source`
Denoted(source, target) == normpath(path_join(dirname(source), PathPart(target)))

\* the path of indexed file `file` relative to the directory of `source`
RelativeTo(source, file) ==
    relpath(path_join(ROOT_DIR, file), dirname(path_join(ROOT_DIR, source)))

\* External / AnchorOnly / Internal of the specification (sections 3 and 4.2)
External(link) ==
    \/ StartsWith(link, <<"http", "://">>)
    \/ StartsWith(link, <<"http", "s", "://">>)
    \/ StartsWith(link, <<"mailto:">>)
AnchorOnly(link) == PathPart(link) = <<>>
Internal(link) == ~External(link) /\ ~AnchorOnly(link)

\* the running script has reported the reference broken
ReportedBroken == broken_links # <<>> \/ all_broken_links # <<>> \/ errors # <<>>

\* C1: whenever the raw target of a broken reference is a key of the override
\* table, the suggestion find_best_match returns is exactly the override's
\* value, whatever the index holds.
C1_OverrideWins ==
    \A r \in Suggestions :
        r.link \in DOMAIN custom_mappings => r.fix = custom_mappings[r.link]

\* C1 witness: a broken reference with an override has been resolved while an
\* indexed file matches its basename (the search by name would have answered).
C1_Witness ==
    \E r \in Suggestions :
        /\ r.link \in DOMAIN custom_mappings
        /\ \E f \in all_files : basename(f) = basename(r.link)
        /\ \E o \in Orders(all_files) : filename_match(r.link, r.source, o) # None

\* C2: for a broken reference P#F and an override table that maps P to Q, the
\* suggestion is Q#F.
C2_FragmentThroughOverride ==
    \A r \in Suggestions :
        (/\ HasFragment(r.link)
         /\ Fragment(r.link) # <<>>
         /\ r.link \notin DOMAIN custom_mappings
         /\ PathPart(r.link) \in DOMAIN custom_mappings)
        => r.fix = custom_mappings[PathPart(r.link)] \o <<"#">> \o Fragment(r.link)

\* C3: every suggestion, resolved from the source document's directory,
\* denotes a file of the index.
C3_SuggestionExists ==
    \A r \in Suggestions :
        Truthy(r.fix) => Denoted(r.source, r.fix) \in all_files

\* C5: the suggestion does not depend on the order in which the index set is
\* iterated.
C5_TieBreakDeterministic ==
    \A r \in Suggestions :
        \A o \in Orders(all_files) :
            (IF Truthy(ToolBestMatch(r.link, r.source, o))
             THEN ToolBestMatch(r.link, r.source, o) ELSE None) = r.fix

\* C6: a reference reaches the existence check if and only if it is Internal.
C6_OnlyInternalChecked ==
    pc # "check" => (exists_calls # {} <=> Internal(ref.link))

\* C7: a reference P#F whose P exists from the source document's directory is
\* not reported broken.
C7_FragmentIgnoredForValidity ==
    (/\ pc # "check"
     /\ Internal(ref.link)
     /\ HasFragment(ref.link)
     /\ ~StartsWith(ref.link, <<"/">>)
     /\ exists(path_join(ROOT_DIR, Denoted(ref.source, ref.link)), disk_files))
    => ~ReportedBroken

\* C8: a suggestion found by file name is the candidate's path relative to the
\* source document's directory, followed by '#' and everything after the first
\* '#' of the raw target when there is such a fragment.
C8_FragmentReappended ==
    \A r \in Suggestions :
        (r.link \notin DOMAIN custom_mappings /\ Truthy(r.fix))
        => \E c \in all_files :
              r.fix = IF HasFragment(r.link) /\ Fragment(r.link) # <<>>
                      THEN RelativeTo(r.source, c) \o <<"#">> \o Fragment(r.link)
                      ELSE RelativeTo(r.source, c)

\* the root of the index of the running script
IndexRoot == IF tool = "check_links" THEN path_join(ROOT_DIR, <<"docs">>) ELSE ROOT_DIR

\* C9: a reference whose target begins with '/' is reported broken exactly when
\* the file it names below the index root does not exist.
C9_RootRelative ==
    (pc # "check" /\ StartsWith(ref.link, <<"/">>))
    => (ReportedBroken <=>
            ~exists(path_join(IndexRoot, Tail(PathPart(ref.link))), disk_files))

\* the number of '..' steps and subdirectory steps from the directory of
\* `source` to the directory of `file`
Steps(source, file) ==
    LET from == NonEmpty(split(dirname(source), "/"))
        to == NonEmpty(split(dirname(file), "/"))
        i == common_prefix_len(from, to)
    IN  (Len(from) - i) + (Len(to) - i)

\* the indexed files whose basename matches the basename of the target
Candidates(link) ==
    {f \in all_files : lower(basename(f)) = lower(basename(PathPart(link)))}

\* C10: without an override, LinkDatabase.find_best_match chooses a candidate
\* at minimal distance among all indexed files whose basename matches.
C10_MinimalDistance ==
    \A b \in Range(broken_links) :
        (/\ b.link \notin DOMAIN custom_mappings
         /\ ~HasFragment(b.link)
         /\ Truthy(b.suggested_fix))
        => \E c \in Candidates(b.link) :
              /\ b.suggested_fix = RelativeTo(b.source, c)
              /\ \A f \in Candidates(b.link) : Steps(b.source, c) <= Steps(b.source, f)

\* the number of leading directory segments the directories of `source` and
\* `file` share
SharedPrefix(source, file) ==
    common_prefix_len(NonEmpty(split(dirname(source), "/")),
                      NonEmpty(split(dirname(file), "/")))

\* the indexed files whose basename equals the target's basename, case and all
ExactCandidates(link) == {f \in all_files : basename(f) = basename(link)}

\* the candidates of a target: the exact-case matches, and without any the
\* matches that differ in case only
MatchCandidates(link) ==
    IF ExactCandidates(link) # {} THEN ExactCandidates(link) ELSE Candidates(link)

\* the suggestions found by file name for a target without fragment
NameSuggestions ==
    {r \in Suggestions :
        r.link \notin DOMAIN custom_mappings /\ ~HasFragment(r.link) /\ Truthy(r.fix)}

\* C11: when candidates A and B both match and A's directory shares strictly
\* more leading segments with the source document's directory than B's, the
\* suggestion is never B.
C11_SharedPrefixMonotone ==
    \A r \in NameSuggestions :
        \A a, b \in MatchCandidates(r.link) :
            SharedPrefix(r.source, a) > SharedPrefix(r.source, b)
            => r.fix # RelativeTo(r.source, b)

\* C12: when some indexed file has exactly the target's basename, the
\* suggestion is one of the files with exactly that basename.
C12_ExactCaseFirst ==
    \A r \in NameSuggestions :
        ExactCandidates(r.link) # {}
        => \E c \in ExactCandidates(r.link) : r.fix = RelativeTo(r.source, c)

-----------------------------------------------------------------------------
(* Properties of a whole run of link_campaign.py (Spec) *)

\* C4: after an apply run, a second analysis of the rewritten tree reports as
\* broken none of the references the first run recorded in fixed_links.
C4_ApplyThenAnalyze ==
    (run = 2 /\ pc = "exit")
    => \A f \in Range(first_fixed) :
          ~\E b \in Range(broken_links) :
               b.source = f.source /\ b.text = f.text /\ b.link = f.suggested_fix

\* the literal [text](raw-target) of a broken reference
Literal(info) == [text |-> info.text, link |-> info.link]

\* fix_links of the apply run has returned
AfterFix == run = 1 /\ args.fix /\ pc \in {"report", "finish", "exit"}

\* another fix of the same document has produced the literal of `info`
Recreated(info) ==
    \E g \in Range(fixed_links) :
        /\ g.source = info.source /\ g.text = info.text
        /\ g.link # info.link /\ g.suggested_fix = info.link

\* C13: after fix_links, every reference recorded as fixed had a suggestion and
\* its literal [text](raw-target) in the content when it was applied (one
\* substitution consumes every occurrence, so no reference is applied twice);
\* a reference with a suggestion whose literal was not found is in
\* manual_review and its literal is not in the content; and the content differs
\* from the content analysed only where a fixed reference was substituted.
C13_AppliedOnlyWhenFound ==
    AfterFix =>
        /\ \A i \in DOMAIN fixed_links :
              LET f == fixed_links[i]
              IN  /\ Truthy(f.suggested_fix)
                  /\ Literal(f) \in Range(file_content[f.source]) \/ Recreated(f)
                  /\ \A j \in DOMAIN fixed_links :
                        (j # i /\ fixed_links[j] = f) => Recreated(f)
        /\ \A m \in Range(manual_review) :
              Truthy(m.suggested_fix) => Literal(m) \notin Range(doc_text[m.source])
        /\ \A src \in DOMAIN file_content :
              /\ Len(doc_text[src]) = Len(file_content[src])
              /\ \A i \in DOMAIN file_content[src] :
                    \/ doc_text[src][i] = file_content[src][i]
                    \/ \E f \in Range(fixed_links) :
                          /\ f.source = src
                          /\ f.text = file_content[src][i].text
                          /\ doc_text[src][i] = [text |-> f.text, link |-> f.suggested_fix]

\* C13 witness: fix_links has applied one reference and demoted another one
\* that had a suggestion, because its literal was no longer in the content.
C13_Witness ==
    /\ AfterFix
    /\ fixed_links # <<>>
    /\ \E m \in Range(manual_review) : Truthy(m.suggested_fix)

\* C14: a run without --fix changes the content of no document and neither
\* creates nor writes the mapping file.
C14_AnalyzeReadOnly ==
    [][~args.fix =>
          /\ mapping_file' = mapping_file
          /\ \A f \in DOMAIN doc_text : doc_text'[f] = doc_text[f]]_vars

\* `content` is the analysed content `original` with some of the document's
\* broken references rewritten to their suggestions, whole
IsRewriteOf(content, original, source) ==
    /\ Len(content) = Len(original)
    /\ \A i \in DOMAIN original :
          \/ content[i] = original[i]
          \/ \E b \in Range(broken_links) :
                /\ b.source = source
                /\ b.text = original[i].text
                /\ content[i] = [text |-> b.text, link |-> b.suggested_fix]

\* C15: at every point of an apply run each document on disk holds its whole
\* original content or its whole rewritten content.
C15_AtomicWrites ==
    (run = 1 /\ args.fix)
    => \A f \in DOMAIN file_content : IsRewriteOf(doc_text[f], file_content[f], f)

\* the run is over: main has returned, or an exception has ended the process
Ended == pc \in {"exit", "crashed"}

\* the broken references of documents other than `d` that fix_links would
\* rewrite: they have a suggestion that differs from the raw target
Fixable(d) ==
    {b \in Range(broken_links) :
        b.source # d /\ Truthy(b.suggested_fix) /\ b.suggested_fix # b.link}

\* C16: when the write of document D fails during an apply run, every other
\* document with fixes is rewritten all the same, and no reference of D is
\* recorded as fixed.
C16_WriteFailureContained ==
    (Ended /\ args.fix)
    => \A d \in faults.unwritable :
          /\ \A b \in Fixable(d) : Literal(b) \notin Range(doc_text[b.source])
          /\ \A f \in Range(fixed_links) : f.source # d

\* C17: when an indexed document cannot be read, the run goes on to its end
\* and every other indexed document is read and analysed.
C17_UnreadableSkipped ==
    Ended
    => \A d \in faults.unreadable :
          /\ pc = "exit"
          /\ \A f \in (all_files \cap disk_files) \ {d} : f \in DOMAIN file_content

\* C18: loading the override table never ends the run, and the table loaded is
\* empty unless the mapping file holds a well-formed table.
C18_LoadTolerant ==
    [][pc = "load" =>
          /\ pc' # "crashed"
          /\ mapping_file.state # "table" => custom_mappings' = NoMappings]_vars

\* how often `x` occurs in the list `seq`
Count(seq, x) == Cardinality({i \in DOMAIN seq : seq[i] = x})

\* C19: when the report has been written, every broken reference is in exactly
\* one of fixed_links and manual_review, so that
\* len(fixed_links) + len(manual_review) = len(broken_links).
C19_EveryBrokenItemized ==
    pc \in {"finish", "exit"}
    => /\ Len(fixed_links) + Len(manual_review) = Len(broken_links)
       /\ \A b \in Range(broken_links) :
             Count(fixed_links, b) + Count(manual_review, b) = Count(broken_links, b)

\* C20: in an apply run (--fix) every document is written at most once, however
\* many of its references are fixed; the report is not a document of the tree
C20_WrittenAtMostOnce ==
    args.fix => \A f \in DOMAIN writes \ {REPORT_PATH} : writes[f] <= 1

-----------------------------------------------------------------------------
(* Properties of the audit metrics (SpecMetrics) *)

\* the metrics a call starts from, and the metrics it leaves
Before == load_metrics(metrics_file, calls + 1)
After == metrics_file'.data

\* counter `field` of table[key]; 0 when the table has no such key
Counter(table, key, field) == IF key \in DOMAIN table THEN table[key][field] ELSE 0

\* the last call opened an issue that was not tracked, with a severity, a
\* component and a BIP
OpensNew ==
    /\ call'.status = <<"open">>
    /\ call'.issue_id \notin DOMAIN Before.issues
    /\ call'.severity # None /\ Truthy(call'.component) /\ Truthy(call'.bip)

\* C21: opening an issue that is not tracked records it as pending and adds
\* one to summary[severity], summary.pending, components[component].issues
\* and bips[bip].issues; no other summary counter changes
C21_OpenCountsOnce ==
    [][OpensNew =>
          /\ ~call'.raised
          /\ call'.issue_id \in DOMAIN After.issues
          /\ After.issues[call'.issue_id].status = <<"pending">>
          /\ \A k \in SummaryKeys :
                After.summary[k] = Before.summary[k]
                    + (IF k \in {lower(call'.severity), <<"pending">>} THEN 1 ELSE 0)
          /\ Counter(After.components, call'.component, "issues")
                = Counter(Before.components, call'.component, "issues") + 1
          /\ Counter(After.bips, call'.bip, "issues")
                = Counter(Before.bips, call'.bip, "issues") + 1]_vars

\* an issue was opened with a severity, a component and a BIP
C21_Witness ==
    /\ calls > 0
    /\ call.status = <<"open">> /\ ~call.raised
    /\ call.issue_id \in DOMAIN metrics_file.data.issues
    /\ metrics_file.data.issues[call.issue_id].created_at = calls
    /\ Truthy(call.component) /\ Truthy(call.bip)
    /\ metrics_file.data.summary[<<"pending">>] = 1

\* the last call closed a tracked issue that was pending, with a component
\* and a BIP
ClosesPending ==
    /\ call'.status = <<"closed">>
    /\ call'.issue_id \in DOMAIN Before.issues
    /\ Before.issues[call'.issue_id].status = <<"pending">>
    /\ Truthy(call'.component) /\ Truthy(call'.bip)

\* C22: closing a tracked issue that is pending marks it fixed with a
\* fixed_at stamp, takes one from summary[its recorded severity] and from
\* summary.pending, and adds one to summary.fixed, components[component].fixed
\* and bips[bip].fixed
C22_CloseMovesToFixed ==
    [][ClosesPending =>
          LET recorded == Before.issues[call'.issue_id].severity
          IN  /\ After.issues[call'.issue_id].status = <<"fixed">>
              /\ "fixed_at" \in DOMAIN After.issues[call'.issue_id]
              /\ After.summary[recorded] = Before.summary[recorded] - 1
              /\ After.summary[<<"pending">>] = Before.summary[<<"pending">>] - 1
              /\ After.summary[<<"fixed">>] = Before.summary[<<"fixed">>] + 1
              /\ Counter(After.components, call'.component, "fixed")
                    = Counter(Before.components, call'.component, "fixed") + 1
              /\ Counter(After.bips, call'.bip, "fixed")
                    = Counter(Before.bips, call'.bip, "fixed") + 1]_vars

\* a pending issue was closed by a call that names another severity than the
\* recorded one
C22_Witness ==
    /\ calls > 1
    /\ call.status = <<"closed">>
    /\ call.issue_id \in DOMAIN metrics_file.data.issues
    /\ LET issue == metrics_file.data.issues[call.issue_id]
       IN  /\ issue.status = <<"fixed">>
           /\ issue.fixed_at = calls
           /\ call.severity # None /\ lower(call.severity) # issue.severity
    /\ Truthy(call.component) /\ Truthy(call.bip)
    /\ metrics_file.data.summary[<<"fixed">>] = 1

\* the metrics on disk after the calls made so far
Tracked == load_metrics(metrics_file, calls)

\* the number of tracked issues with this status
WithStatus(status) ==
    Cardinality({i \in DOMAIN Tracked.issues : Tracked.issues[i].status = status})

\* C23: after any sequence of calls, summary.pending is the number of tracked
\* issues that are pending, summary.fixed the number that are fixed, and no
\* summary counter is negative
C23_SummaryCountsIssues ==
    /\ Tracked.summary[<<"pending">>] = WithStatus(<<"pending">>)
    /\ Tracked.summary[<<"fixed">>] = WithStatus(<<"fixed">>)
    /\ \A k \in SummaryKeys : Tracked.summary[k] >= 0

\* C24: after any sequence of calls, the four severity counters add up to
\* summary.pending
C24_SeveritiesSumToPending ==
    Tracked.summary[<<"critical">>] + Tracked.summary[<<"high">>]
        + Tracked.summary[<<"medium">>] + Tracked.summary[<<"low">>]
    = Tracked.summary[<<"pending">>]

\* an issue was opened and then closed twice: its severity counter and
\* summary.pending went below zero together
C24_Witness ==
    /\ calls = MaxCalls
    /\ Tracked.summary[<<"pending">>] = -1
    /\ Tracked.summary[<<"fixed">>] = 2

\* C25: after any sequence of calls, the fixed counter of a component or of a
\* BIP never exceeds its issues counter
C25_FixedWithinIssues ==
    /\ \A c \in DOMAIN Tracked.components :
          Tracked.components[c].fixed <= Tracked.components[c].issues
    /\ \A b \in DOMAIN Tracked.bips : Tracked.bips[b].fixed <= Tracked.bips[b].issues

-----------------------------------------------------------------------------
(* Properties of link_fixer.py and fix_critical_links.py *)

\* C26: when link_fixer has ended, a document for which a [FIX] line was
\* written has been written back with the replaced target in place of the
\* broken one, and a document without a [FIX] line has not been written
C26_FixedFileWritten ==
    (tool = "link_fixer" /\ pc = "exit")
    => /\ \A line \in Range(report) :
             /\ writes[line.file] = 1
             /\ \E i \in 1..Len(doc_text[line.file]) :
                   doc_text[line.file][i].link = line.rel
       /\ \A f \in DOMAIN writes :
             (\A line \in Range(report) : line.file # f) => writes[f] = 0

\* C27: fix_file is idempotent: in a second run of fix_critical_links no call
\* of fix_file changes a document or returns another count than 0; and in
\* the first run a reference is rewritten by at most one entry of the table:
\* a target that is a key is replaced by its entry, any other is kept
C27_FixFileIdempotent ==
    [][(tool = "fix_critical_links" /\ Len(report') > Len(report))
          => LET file == report'[Len(report')].file
             IN  /\ run = 2 =>
                       /\ doc_text' = doc_text
                       /\ report'[Len(report')].fixed_count = 0
                 /\ (run = 1 /\ file \in disk_files) =>
                       \A i \in 1..Len(doc_text[file]) :
                          LET link == doc_text[file][i].link
                          IN  doc_text'[file][i].link =
                                  IF link \in DOMAIN custom_mappings
                                  THEN custom_mappings[link] ELSE link]_vars

-----------------------------------------------------------------------------
(* Further properties of a whole run of link_campaign.py *)

\* C28: after an apply run, a broken reference with a suggested fix whose
\* syntax [text](raw-target) occurs more than once in its document is in
\* fixed_links, once for each of its entries of broken_links, and never in
\* manual_review
C28_RepeatedReferenceFixed ==
    (tool = "link_campaign" /\ args.fix /\ run = 1 /\ pc \in {"finish", "exit"})
    => \A b \in Range(broken_links) :
          (Truthy(b.suggested_fix) /\ Count(file_content[b.source], Literal(b)) > 1)
          => /\ Count(manual_review, b) = 0
             /\ Count(fixed_links, b) = Count(broken_links, b)

\* the override entries the mapping file holds; none when it is absent
Entries(file) == IF file.state = "table" THEN file.table ELSE NoMappings

\* C29: no step of a run of link_campaign changes the entries the mapping
\* file holds, and a mapping file that cannot be parsed is left as it is
C29_MappingFileKept ==
    [][tool = "link_campaign" =>
          /\ mapping_file.state \in {"absent", "table"}
                => Entries(mapping_file') = Entries(mapping_file)
          /\ mapping_file.state \in {"malformed", "number"}
                => mapping_file' = mapping_file]_vars

\* a reference of an indexed document is still broken: check_links would
\* report it on the tree as it is now
RemainsBroken ==
    \E f \in all_files \cap disk_files : \E i \in 1..Len(doc_text[f]) :
        /\ checked_link(doc_text[f][i].link)
        /\ ~exists(link_full_path(f, doc_text[f][i].link), disk_files)

\* C30: link_campaign's main returns 0 only if no reference of the corpus is
\* broken when the run ends; a dry run that found broken references returns
\* another status
C30_ExitStatusTellsBreakage ==
    (tool = "link_campaign" /\ pc = "exit" /\ exit_code = 0) => ~RemainsBroken

=============================================================================
